---- MODULE Spec2Model ----
(***************************************************************************)
(* Beijing Air Quality Predictor (src/main.py).                            *)
(*                                                                         *)
(* main.py is a Streamlit script: the server executes it top to bottom on  *)
(* the first page load and again on every widget change or button click.   *)
(* What survives between two executions is the widget state of the session *)
(* and the value cached by @st.cache_resource for load_model(); everything *)
(* else (the feature vector, the pressed button, what is rendered) is      *)
(* recomputed by each execution.                                           *)
(*                                                                         *)
(* Number representation.  The widget values are whole numbers (step 1.0)  *)
(* and are kept as integers.  np.sin / np.cos results are kept in          *)
(* millionths, rounded to the nearest millionth (so 1.2246e-16, the        *)
(* double that np.sin(np.pi) returns, is 0).  A prediction is kept in      *)
(* thousandths of a ug/m3, so that 11.999 is 11999 and 12.0 is 12000.      *)
(***************************************************************************)
EXTENDS Integers, Sequences, FiniteSets

VARIABLES
    model,       \* value cached for load_model(): "unset" before the first run,
                 \* then "None" or the loaded estimator
    widgets,     \* session widget state: the nine inputs
    input_data,  \* the feature row built by the latest run (<<>> before the first)
    button,      \* the button whose click triggered the latest run, or "none"
    out,         \* what the latest run rendered and which external calls it made
    memo         \* observer: one earlier Predict request, kept for comparison

vars == <<model, widgets, input_data, button, out, memo>>

\* Largest number of widgets that differ from their default value at once.
MaxEdited == 1

---------------------------------------------------------------------------
(* Widgets: ranges and default values                                      *)

Hours == 0 .. 23

Months == 1 .. 12

Temps == {-20, 20, 45}

Pressures == {980, 1013, 1040}

Winds == {0, 5, 100}

Dews == {-20, 10, 30}

WeekendChoices == {"No", "Yes"}

Pm24Lags == {0, 12, 35, 55, 80, 150, 500}

Pm168Lags == {0, 75, 500}

Defaults ==
    [hour |-> 12, temp |-> 20, pres |-> 1013, wind |-> 5, dew |-> 10,
     month |-> 6, is_weekend |-> "No", pm24_lag |-> 80, pm168_lag |-> 75]

Edited(w) == Cardinality({f \in DOMAIN w : w[f] # Defaults[f]})

---------------------------------------------------------------------------
(* Feature encoding                                                        *)

\* sin of k/24 of a full turn, in millionths, k = 0 .. 23
SinTable ==
    <<       0,  258819,  500000,  707107,  866025,  965926,
       1000000,  965926,  866025,  707107,  500000,  258819,
             0, -258819, -500000, -707107, -866025, -965926,
      -1000000, -965926, -866025, -707107, -500000, -258819 >>

\* np.sin(2 * np.pi * n / period), period 24 or 12
np_sin(n, period) == SinTable[((n * (24 \div period)) % 24) + 1]

\* np.cos(2 * np.pi * n / period) = sin of a quarter turn more
np_cos(n, period) == SinTable[((n * (24 \div period) + 6) % 24) + 1]

hour_sin(hour) == np_sin(hour, 24)

hour_cos(hour) == np_cos(hour, 24)

month_sin_unshifted(month) == np_sin(month, 12)

month_sin(month) == np_sin(month - 1, 12)

month_cos(month) == np_cos(month - 1, 12)

time_slot_closed(hour) ==
    IF 5 <= hour /\ hour <= 12 THEN 0
    ELSE IF 12 <= hour /\ hour <= 17 THEN 1
    ELSE IF 17 <= hour /\ hour <= 21 THEN 2
    ELSE 3

time_slot(hour) ==
    IF 5 <= hour /\ hour < 12 THEN 0
    ELSE IF 12 <= hour /\ hour < 17 THEN 1
    ELSE IF 17 <= hour /\ hour < 21 THEN 2
    ELSE 3

weekend_flag(is_weekend) == IF is_weekend = "Yes" THEN 1 ELSE 0

InputData_swapped(w) ==
    << hour_sin(w.hour), hour_cos(w.hour),
       month_sin(w.month), month_cos(w.month),
       w.temp - w.dew,
       time_slot(w.hour),
       w.pres, w.temp, w.wind,
       weekend_flag(w.is_weekend),
       w.pm24_lag, w.pm168_lag >>

InputData(w) ==
    << hour_sin(w.hour), hour_cos(w.hour),
       month_sin(w.month), month_cos(w.month),
       w.temp - w.dew,
       time_slot(w.hour),
       w.temp, w.pres, w.wind,
       weekend_flag(w.is_weekend),
       w.pm24_lag, w.pm168_lag >>

---------------------------------------------------------------------------
(* The model artifact, the cached loader and the predictor                 *)

\* Estimators that best_tuned_model.pkl may hold.  The artifact is opaque;
\* these stand for it: each is a deterministic function of the feature row.
Predictors == {"rfA", "rfB", "rf11"}

\* What joblib.load('best_tuned_model.pkl') yields: an estimator, or "None"
\* when the file is missing or unreadable (the except branch).
DiskStates == Predictors \cup {"None"}

Raised == [ok |-> FALSE, value |-> 0]

Returned(v) == [ok |-> TRUE, value |-> v]

\* model.predict(input_data)[0], in thousandths.
\*   rfA   fitted on the 12 features, never raises;
\*   rfB   fitted on the 12 features, raises on wind above 50;
\*   rf11  fitted on 11 features: raises on every 12-entry row;
\*   None  has no predict attribute.
Predict(m, x) ==
    CASE m = "rfA"  -> Returned(1000 * x[11])
      [] m = "rfB"  -> IF x[9] > 50 THEN Raised
                       ELSE IF x[5] < 0 THEN Returned(500 * x[5])
                       ELSE Returned(1000 * x[11] - 1)
      [] m = "rf11" -> IF Len(x) = 11 THEN Returned(1000 * x[10]) ELSE Raised
      [] OTHER      -> Raised

\* load_model(): the body runs only when @st.cache_resource holds no value.
load_model(cached, disk) == IF cached = "unset" THEN disk ELSE cached

LoadAttempts_nocache(cached) == 1

\* joblib.load executions caused by the call load_model() of one run
LoadAttempts(cached) == IF cached = "unset" THEN 1 ELSE 0

---------------------------------------------------------------------------
(* Categorizer and timing tip                                              *)

Good == [category |-> "Good", color |-> "green",
         advice |-> "Air quality is excellent. Perfect for outdoor activities."]

Moderate == [category |-> "Moderate", color |-> "blue",
             advice |-> "Air quality is acceptable. Sensitive groups should consider reducing outdoor activity."]

Sensitive == [category |-> "Unhealthy for Sensitive Groups", color |-> "yellow",
              advice |-> "Children, elderly, and people with respiratory conditions should limit outdoor activity."]

Unhealthy == [category |-> "Unhealthy", color |-> "orange",
              advice |-> "Everyone may experience health effects. Limit outdoor activity."]

Hazardous == [category |-> "Hazardous", color |-> "red",
              advice |-> "Health warning of emergency conditions. Avoid all outdoor activity."]

Category_inclusive(prediction) ==
    IF prediction <= 12000 THEN Good
    ELSE IF prediction <= 35000 THEN Moderate
    ELSE IF prediction <= 55000 THEN Sensitive
    ELSE IF prediction <= 150000 THEN Unhealthy
    ELSE Hazardous

\* prediction in thousandths: 12000 is 12 ug/m3
Category(prediction) ==
    IF prediction < 12000 THEN Good
    ELSE IF prediction < 35000 THEN Moderate
    ELSE IF prediction < 55000 THEN Sensitive
    ELSE IF prediction < 150000 THEN Unhealthy
    ELSE Hazardous

TipGood == "Current hour is good (away from rush hours)"

TipConsider == "Consider early morning or evening (less traffic pollution)"

Tip_inclusive(hour) == IF hour <= 10 \/ hour >= 18 THEN TipGood ELSE TipConsider

Tip(hour) == IF hour < 10 \/ hour > 18 THEN TipGood ELSE TipConsider

---------------------------------------------------------------------------
(* One execution of the script                                             *)

\* A run that renders no result: the settings column and the footer only.
\*   load_error  the "Model file ... not found" box of load_model, replayed
\*               with the cached None
\*   loads       joblib.load executions of this run
\*   called      model.predict invocations of this run
Blank(m) ==
    [kind |-> "idle", load_error |-> (m = "None"), loads |-> LoadAttempts(m),
     called |-> 0, prediction |-> 0, category |-> "", color |-> "",
     advice |-> "", tip |-> "", message |-> "", table |-> <<>>]

OnPredictError_uncaught(m) ==
    [Blank(m) EXCEPT !.kind = "exception", !.called = 1,
                     !.message = "Traceback"]

\* except Exception as e: st.error(f"Prediction error: {e}")
OnPredictError(m) ==
    [Blank(m) EXCEPT !.kind = "predError", !.called = 1,
                     !.message = "Prediction error"]

\* elif predict_button: st.error("Model not loaded. ...")
NotLoaded(m) ==
    [Blank(m) EXCEPT !.kind = "notLoaded",
                     !.message = "Model not loaded. Check if 'best_tuned_model.pkl' exists."]

Shown(m, prediction, hour) ==
    [Blank(m) EXCEPT !.kind = "result", !.called = 1,
                     !.prediction = prediction,
                     !.category = Category(prediction).category,
                     !.color = Category(prediction).color,
                     !.advice = Category(prediction).advice,
                     !.tip = Tip(hour)]

RunPredict_after_failed_test(m, x, hour) ==
    IF button = "testload" /\ out.kind = "loadFail" THEN OnPredictError(m)
    ELSE IF Predict(m, x).ok THEN Shown(m, Predict(m, x).value, hour)
    ELSE OnPredictError(m)

\* the try block: predict, then metric, category, advice and tip
RunPredict(m, x, hour) ==
    IF Predict(m, x).ok THEN Shown(m, Predict(m, x).value, hour)
    ELSE OnPredictError(m)

CanPredict_unguarded(predict_button, m) == predict_button

\* if predict_button and model is not None
CanPredict(predict_button, m) == predict_button /\ m # "None"

\* if ... / elif predict_button / (neither)
Respond(predict_button, m, x, hour) ==
    IF CanPredict(predict_button, m) THEN RunPredict(m, x, hour)
    ELSE IF predict_button THEN NotLoaded(m)
    ELSE Blank(m)

ModelAfterTest_assigned(m, test_model) == test_model

\* test_model = joblib.load(...) binds a local name: the global model stays
ModelAfterTest(m, test_model) == m

---------------------------------------------------------------------------
(* Observer: remembers one Predict request made with a probe input         *)

Probes == {Defaults, [Defaults EXCEPT !.wind = 100]}

NoMemo ==
    [set |-> FALSE, interleaved |-> FALSE, model |-> "unset",
     widgets |-> Defaults, input_data |-> <<>>, out |-> Blank("None")]

Observe(w, x, o) ==
    IF memo.set
    THEN {[memo EXCEPT !.interleaved = @ \/ (w # memo.widgets)]}
    ELSE IF w \in Probes
         THEN {memo, [set |-> TRUE, interleaved |-> FALSE, model |-> model,
                      widgets |-> w, input_data |-> x, out |-> o]}
         ELSE {memo}

---------------------------------------------------------------------------
(* State machine                                                           *)

Init ==
    /\ model = "unset"
    /\ widgets = Defaults
    /\ input_data = <<>>
    /\ button = "none"
    /\ out = Blank("unset")
    /\ memo = NoMemo

\* A run in which no button is pressed, with widget state w and the model m
\* that load_model() returned.
Rerun(w, m) ==
    /\ widgets' = w
    /\ model' = m
    /\ input_data' = InputData(w)
    /\ button' = "none"
    /\ out' = [Respond(FALSE, m, InputData(w), w.hour)
                  EXCEPT !.loads = LoadAttempts(model)]
    /\ memo' = memo

\* First execution: load_model() runs its body and the result is cached.
FirstRun ==
    /\ model = "unset"
    /\ \E disk \in DiskStates : Rerun(widgets, load_model(model, disk))

Change(w) ==
    /\ model # "unset"
    /\ w # widgets
    /\ Edited(w) <= MaxEdited
    /\ Rerun(w, load_model(model, model))

SetHour == \E v \in Hours : Change([widgets EXCEPT !.hour = v])

SetTemp == \E v \in Temps : Change([widgets EXCEPT !.temp = v])

SetPres == \E v \in Pressures : Change([widgets EXCEPT !.pres = v])

SetWind == \E v \in Winds : Change([widgets EXCEPT !.wind = v])

SetDew == \E v \in Dews : Change([widgets EXCEPT !.dew = v])

SetMonth == \E v \in Months : Change([widgets EXCEPT !.month = v])

SetWeekend == \E v \in WeekendChoices : Change([widgets EXCEPT !.is_weekend = v])

SetPm24 == \E v \in Pm24Lags : Change([widgets EXCEPT !.pm24_lag = v])

SetPm168 == \E v \in Pm168Lags : Change([widgets EXCEPT !.pm168_lag = v])

\* Click on "Predict Air Quality"
ClickPredict ==
    /\ model # "unset"
    /\ widgets' = widgets
    /\ model' = load_model(model, model)
    /\ input_data' = InputData(widgets)
    /\ button' = "predict"
    /\ out' = [Respond(TRUE, model', input_data', widgets.hour)
                  EXCEPT !.loads = LoadAttempts(model)]
    /\ memo' \in Observe(widgets, input_data', out')

\* Click on "Show input features" in the Debug / Test expander
ShowInputFeatures ==
    /\ model # "unset"
    /\ widgets' = widgets
    /\ model' = load_model(model, model)
    /\ input_data' = InputData(widgets)
    /\ button' = "features"
    /\ out' = [Respond(FALSE, model', input_data', widgets.hour)
                  EXCEPT !.kind = "features", !.table = input_data',
                         !.loads = LoadAttempts(model)]
    /\ memo' = memo

\* Click on "Test model loading" in the Debug / Test expander
TestModelLoading ==
    /\ model # "unset"
    /\ \E disk \in DiskStates :
         /\ widgets' = widgets
         /\ model' = ModelAfterTest(load_model(model, model), disk)
         /\ input_data' = InputData(widgets)
         /\ button' = "testload"
         /\ out' = [Respond(FALSE, load_model(model, model), input_data', widgets.hour)
                       EXCEPT !.kind = IF disk # "None" THEN "loadOk" ELSE "loadFail",
                              !.message = IF disk # "None"
                                          THEN "Model loads successfully!"
                                          ELSE "Load failed",
                              !.loads = LoadAttempts(model) + 1]
         /\ memo' = memo

Next ==
    \/ FirstRun
    \/ SetHour \/ SetTemp \/ SetPres \/ SetWind \/ SetDew
    \/ SetMonth \/ SetWeekend \/ SetPm24 \/ SetPm168
    \/ ClickPredict
    \/ ShowInputFeatures
    \/ TestModelLoading

Spec == Init /\ [][Next]_vars

---------------------------------------------------------------------------
(* Properties                                                              *)

Ran == model # "unset"

\* C1: every displayed prediction p gets exactly one category, by
\* exclusive-below thresholds: Good iff p < 12, Moderate iff 12 <= p < 35,
\* Unhealthy for Sensitive Groups iff 35 <= p < 55, Unhealthy iff
\* 55 <= p < 150, Hazardous iff p >= 150 (p in thousandths here); a threshold
\* value is in the higher bucket and a negative value is Good.
C1_CategoryThresholds ==
    out.kind = "result" =>
        LET p == out.prediction
            c == out.category
        IN  /\ c \in {"Good", "Moderate", "Unhealthy for Sensitive Groups",
                      "Unhealthy", "Hazardous"}
            /\ (c = "Good") <=> (p < 12000)
            /\ (c = "Moderate") <=> (12000 <= p /\ p < 35000)
            /\ (c = "Unhealthy for Sensitive Groups") <=> (35000 <= p /\ p < 55000)
            /\ (c = "Unhealthy") <=> (55000 <= p /\ p < 150000)
            /\ (c = "Hazardous") <=> (p >= 150000)

C1_Witness ==
    /\ out.kind = "result"
    /\ out.prediction = 12000
    /\ out.category = "Moderate"

\* C2: for every hour in 0..23 the timeSlot entry of the feature row is one
\* code of 0..3: 0 iff 5 <= hour < 12, 1 iff 12 <= hour < 17, 2 iff
\* 17 <= hour < 21, 3 otherwise (21..23 and 0..4).
C2_TimeSlot ==
    Ran =>
        LET h == widgets.hour
            s == input_data[6]
        IN  /\ h \in 0 .. 23
            /\ s \in 0 .. 3
            /\ (s = 0) <=> (5 <= h /\ h < 12)
            /\ (s = 1) <=> (12 <= h /\ h < 17)
            /\ (s = 2) <=> (17 <= h /\ h < 21)
            /\ (s = 3) <=> (h \in (21 .. 23) \cup (0 .. 4))

C2_Witness ==
    /\ Ran
    /\ widgets.hour = 21
    /\ input_data[6] = 3

\* C3: once the startup load has failed (the cached model is None) the model
\* stays None; no run invokes the predictor or displays a prediction,
\* category, advisory or tip; a click on Predict displays the
\* model-not-loaded message; and Predict can still be clicked.
C3_NotLoadedDisablesPrediction ==
    /\ [](model = "None" =>
            /\ out.called = 0
            /\ out.kind \notin {"result", "predError"}
            /\ out.category = "" /\ out.advice = "" /\ out.tip = ""
            /\ button = "predict" =>
                 /\ out.kind = "notLoaded"
                 /\ out.message = "Model not loaded. Check if 'best_tuned_model.pkl' exists."
            /\ ENABLED ClickPredict)
    /\ [][model = "None" => model' = "None"]_vars

C3_Witness ==
    /\ model = "None"
    /\ button = "predict"
    /\ out.kind = "notLoaded"
    /\ widgets # Defaults

\* C4: when the predictor raises during a Predict request, the run ends with
\* the prediction-error message and no category, advisory or tip; the
\* predictor was invoked once (no retry) and nothing was loaded; the cached
\* model and the inputs are as before the click; and Predict can be clicked
\* again.
C4_PredictionFailureCaught ==
    /\ [][(/\ button' = "predict"
           /\ model' # "None"
           /\ ~Predict(model', input_data').ok)
          => /\ out'.kind = "predError"
             /\ out'.message = "Prediction error"
             /\ out'.category = "" /\ out'.advice = "" /\ out'.tip = ""
             /\ out'.called = 1
             /\ out'.loads = 0
             /\ model' = model
             /\ widgets' = widgets]_vars
    /\ [](out.kind = "predError" => ENABLED ClickPredict)

\* A request failed (remembered by the observer), the input was adjusted,
\* and the following request succeeded.
C4_Witness ==
    /\ memo.set
    /\ memo.out.kind = "predError"
    /\ button = "predict"
    /\ out.kind = "result"

\* C5: joblib.load runs once in the first run and afterwards only in a run
\* triggered by "Test model loading"; a run triggered by Predict never
\* loads, also when the cached model is None.
C5_LoadOnlyAtStartOrOnTest ==
    [][/\ model = "unset" => out'.loads = 1
       /\ (model # "unset" /\ button' # "testload") => out'.loads = 0
       /\ button' = "predict" => out'.loads = 0
       /\ button' = "testload" => out'.loads = 1]_vars

C5_Witness ==
    /\ model = "None"
    /\ button = "predict"
    /\ out.loads = 0

C6_Expected(w) ==
    << SinTable[w.hour + 1],
       SinTable[((w.hour + 6) % 24) + 1],
       SinTable[((2 * (w.month - 1)) % 24) + 1],
       SinTable[((2 * (w.month - 1) + 6) % 24) + 1],
       w.temp - w.dew,
       CASE w.hour \in 5 .. 11 -> 0
         [] w.hour \in 12 .. 16 -> 1
         [] w.hour \in 17 .. 20 -> 2
         [] OTHER -> 3,
       w.temp,
       w.pres,
       w.wind,
       IF w.is_weekend = "Yes" THEN 1 ELSE 0,
       w.pm24_lag,
       w.pm168_lag >>

\* C6: the feature row of every run has exactly 12 entries in the order
\* hourSin, hourCos, monthSin, monthCos, temperature - dewPoint, timeSlot,
\* temperature, pressure, windSpeed, weekendFlag, pm25Lag24h, pm25Lag168h,
\* and it is the row the predictor is called with.
C6_FeatureVector ==
    Ran =>
        /\ Len(input_data) = 12
        /\ input_data = C6_Expected(widgets)
        /\ out.called = 1 =>
             /\ (out.kind = "result") <=> Predict(model, C6_Expected(widgets)).ok
             /\ out.kind = "result" =>
                  out.prediction = Predict(model, C6_Expected(widgets)).value

C6_Witness ==
    /\ widgets.is_weekend = "Yes"
    /\ input_data[10] = 1
    /\ out.kind = "result"

\* C7 as stated: the default input encodes to
\* [0.0, 1.0, sin(2 pi 5/12), cos(2 pi 5/12), 10, 1, 20, 1013, 5, 0, 80, 75].
C7_AsStated ==
    (Ran /\ widgets = Defaults) =>
        input_data = << 0, 1000000, 500000, -866025, 10, 1, 20, 1013, 5, 0, 80, 75 >>

\* C7 amended: the default input (hour 12, month 6, temperature 20,
\* pressure 1013, wind 5, dew point 10, not weekend, lags 80 and 75) encodes
\* to [0.0, -1.0, sin(2 pi 5/12) = 0.5, cos(2 pi 5/12) = -0.866025, 10, 1, 20,
\* 1013, 5, 0, 80, 75]: hourCos is cos(pi) = -1.0.
C7_Amended ==
    (Ran /\ widgets = Defaults) =>
        input_data = << 0, -1000000, 500000, -866025, 10, 1, 20, 1013, 5, 0, 80, 75 >>

C7_Witness ==
    /\ widgets = Defaults
    /\ button = "predict"
    /\ input_data[2] = -1000000
    /\ out.kind = "result"

\* C8: the timing tip shown with a result depends on hour alone: the
\* favorable tip iff hour < 10 or hour > 18, the other tip iff
\* 10 <= hour <= 18, whatever the prediction.
C8_TimingTip ==
    out.kind = "result" =>
        LET h == widgets.hour
        IN  /\ (out.tip = TipGood) <=> (h < 10 \/ h > 18)
            /\ (out.tip = TipConsider) <=> (10 <= h /\ h <= 18)

C8_Witness ==
    /\ out.kind = "result"
    /\ widgets.hour = 18
    /\ out.tip = TipConsider

\* C9: after the first run no step changes the cached model: not a Predict
\* request (successful or failed), not "Show input features", not "Test
\* model loading" (successful or failed), not a widget change.
C9_ModelReadOnly ==
    [][model # "unset" => model' = model]_vars

\* "Test model loading" reported success while the model used for
\* prediction is still None.
C9_Witness ==
    /\ model = "None"
    /\ button = "testload"
    /\ out.kind = "loadOk"

\* C10: a run with the same inputs as a remembered earlier request builds the
\* identical feature row, and a Predict request with the same inputs and
\* the same model has the identical outcome, whatever happened in between.
C10_RequestsIndependent ==
    (memo.set /\ memo.widgets = widgets /\ memo.model = model) =>
        /\ input_data = memo.input_data
        /\ Len(input_data) = 12
        /\ button = "predict" => out = memo.out

C10_Witness ==
    /\ memo.set
    /\ memo.interleaved
    /\ memo.widgets = widgets
    /\ button = "predict"
    /\ out.kind = "result"
    /\ out = memo.out

====
